---------------------------- MODULE Spec2Model ----------------------------
(***************************************************************************)
(* go-timesort: TimeSlice[T], a slice wrapper sorted by a time extracted   *)
(* from each element, guarded by a sync.RWMutex (src/gts.go).              *)
(*                                                                         *)
(* src/gts.go holds two definitions of the package.  The first (lines      *)
(* 1-214) is the decorate-sort-undecorate implementation; the second       *)
(* (lines 216-311) sorts the stored slice in place under the write lock.   *)
(* The first is modelled by the actions without prefix, the second by the  *)
(* actions prefixed Old.                                                   *)
(*                                                                         *)
(* Elements of type T are modelled by their identity (1..MaxLen); the      *)
(* fieldTimeExtractor is the function extract from identities to times.    *)
(* Slices are references into a heap of backing arrays, so that sharing    *)
(* of a backing array between two holders is a state the model can be in.  *)
(***************************************************************************)
EXTENDS Integers, Sequences, FiniteSets, TLC

\* ------------------------------------------------------------------ bounds
\* longest slice handed to New when one thread runs alone
MaxLen == 3
\* longest slice handed to New when several threads run
ConcLen == 2
\* number of distinct times the extractor returns, one thread alone
NTimes == 3
\* number of distinct times the extractor returns, several threads
ConcTimes == 2
NThreads == 2
MaxClones == 1

Ids == 1..MaxLen
Times == 1..NTimes
Threads == 1..NThreads
\* collection 1 is the one built by New, the others are slots for clones
Colls == 1..(1 + MaxClones)
\* one backing array per collection and one per thread's returned slice
\* and one more for the array SortAsc builds before it drops the old one
Refs == 1..(2 + MaxClones + NThreads)

\* heap[r] of a backing array that is not allocated
NoArr == <<0>>

VARIABLES
    impl,       \* the definition of the package in use: "dsu" (lines 1-214)
                \* or "inplace" (lines 216-311)
    input,      \* history: the slice handed to New
    made,       \* made[c]: collection c exists
    fte,        \* fte[c]: "fn" or "nil", the fieldTimeExtractor field
    slice,      \* slice[c]: reference of the backing array of ts.slice
    mu,         \* mu[c]: the RWMutex: the readers inside, whether a read lock
                \* was abandoned, the writer holding rw.w (0: none, -1: a
                \* writer that abandoned it), whether the writer is inside
    heap,       \* heap[r]: contents of backing array r, or NoArr
    extract,    \* the caller's extractor: identity -> time
    pc,         \* pc[t]: position of thread t in the operation it runs
    call,       \* call[t]: operation, receiver and arguments
    loc,        \* loc[t]: the operation's local variables, and the number of
                \* extractor calls it has made (history)
    ret,        \* ret[t]: the value returned to the caller
    newPanic,   \* the last call of New panicked
    lastSort,   \* history: the sort that last replaced the slice of
                \* collection 1, "none" once Swap has written to it since
    ext         \* a caller that sorts collection 1 through Len, LessAsc or
                \* LessDesc, and Swap: where it is in its insertion sort

vars == <<impl, input, made, fte, slice, mu, heap, extract, pc, call, loc, ret, newPanic, lastSort, ext>>

\* ------------------------------------------------------- pure functions
\* time.Time.Before / time.Time.After
Before(a, b) == a < b
After(a, b) == a > b

SwapAt(s, a, b) == [s EXCEPT ![a] = s[b], ![b] = s[a]]

Reverse(s) == [k \in 1..Len(s) |-> s[Len(s) + 1 - k]]

\* LessBy as it would be had SortDesc kept the comparison of SortAsc
LessByBeforeOnly(keys, asc, x, y) == Before(keys[x], keys[y])

\* LessBy as it would be with "not after" / "not before" comparisons
LessByOrEqual(keys, asc, x, y) ==
    IF asc THEN ~After(keys[x], keys[y]) ELSE ~Before(keys[x], keys[y])

\* the less function handed to sort.SliceStable, over precomputed keys:
\* keys[x].Before(keys[y]) ascending, keys[x].After(keys[y]) descending
LessBy(keys, asc, x, y) ==
    IF asc THEN Before(keys[x], keys[y]) ELSE After(keys[x], keys[y])

\* inner loop of insertionSort: for j := i; j > a && less(j, j-1); j-- { swap }
RECURSIVE SinkDown(_, _, _, _)
SinkDown(s, j, keys, asc) ==
    IF j > 1 /\ LessBy(keys, asc, s[j], s[j - 1])
    THEN SinkDown(SwapAt(s, j, j - 1), j - 1, keys, asc)
    ELSE s

\* outer loop of insertionSort: for i := a + 1; i < b; i++
RECURSIVE InsertFrom(_, _, _, _)
InsertFrom(s, i, keys, asc) ==
    IF i > Len(s) THEN s
    ELSE InsertFrom(SinkDown(s, i, keys, asc), i + 1, keys, asc)

\* sort.SliceStable: for fewer than 20 elements the library runs one
\* insertion sort over the whole slice
SliceStable(s, keys, asc) == InsertFrom(s, 2, keys, asc)

\* idxs[i] = i for the n positions of the snapshot (0-based in the code)
Iota(n) == [k \in 1..n |-> k]

\* SortedByKeys as it would be with newSlice[i] = orig[i]
SortedByKeysNoReorder(orig, times, asc) == orig

\* SortAsc lines 118-127 / SortDesc lines 178-187: sort the indices by the
\* precomputed keys, then build the reordered slice
SortedByKeys(orig, times, asc) ==
    LET idxs == SliceStable(Iota(Len(orig)), times, asc)
    IN  [k \in 1..Len(orig) |-> orig[idxs[k]]]

\* --------------------------------------------------------------- state
NoCall == [op |-> "none", c |-> 0, i |-> 0, j |-> 0]
\* calls is history: the number of times the operation has invoked the
\* extractor, kept until the caller takes the result
NoLoc == [buf |-> <<>>, times |-> <<>>, v1 |-> 0, v2 |-> 0, i |-> 0, j |-> 0, calls |-> 0]
NoRet == [kind |-> "none", val |-> 0]
\* the caller that sorts through Len, Less and Swap has not started
NoExt == [at |-> "off", n |-> 0, i |-> 0, j |-> 0, less |-> "none"]
Unlocked == [readers |-> {}, orphans |-> FALSE, writer |-> 0, active |-> FALSE]

ReadOps == {"Len", "LessAsc", "LessDesc", "SortAsc", "SortDesc", "Items", "Clone"}
AllOps == ReadOps \cup {"Swap"}
IndexedOps == {"LessAsc", "LessDesc", "Swap"}

\* the stored sequence of collection c
Stored(c) == heap[slice[c]]

\* backing arrays some holder still references: a collection's slice field
\* or a slice returned by Items that its caller has not let go
Held(sl, rt) ==
    {sl[c] : c \in Colls} \cup {rt[t].val : t \in {u \in Threads : rt[u].kind = "items"}}

\* garbage collection: an array nobody references is gone
Collect(h, sl, rt) == [r \in Refs |-> IF r \in Held(sl, rt) THEN h[r] ELSE NoArr]

\* make([]T, n): the first backing array that is free
FreshRef(h) == CHOOSE r \in Refs : h[r] = NoArr /\ \A q \in Refs : q < r => h[q] # NoArr

FreeColl == CHOOSE c \in Colls : ~made[c] /\ \A d \in Colls : d < c => made[d]

InitOf(definition) ==
    /\ impl = definition
    /\ input = <<>>
    /\ made = [c \in Colls |-> FALSE]
    /\ fte = [c \in Colls |-> "none"]
    /\ slice = [c \in Colls |-> 0]
    /\ mu = [c \in Colls |-> Unlocked]
    /\ heap = [r \in Refs |-> NoArr]
    /\ extract = [e \in Ids |-> 1]
    /\ pc = [t \in Threads |-> "idle"]
    /\ call = [t \in Threads |-> NoCall]
    /\ loc = [t \in Threads |-> NoLoc]
    /\ ret = [t \in Threads |-> NoRet]
    /\ newPanic = FALSE
    /\ lastSort = "none"
    /\ ext = NoExt

\* the program is built from the first definition of the package
Init == InitOf("dsu")

\* ------------------------------------------------------------ sync.RWMutex
\* RLock as it would be if readers did not wait for a writer
CanRLockAlways(c) == TRUE

\* Lock as it would be if the writer did not wait for the readers inside
CanEnterAlways(c) == TRUE

\* RLock blocks while a writer holds rw.w, pending or active
CanRLock(c) == mu[c].writer = 0
\* Lock first takes rw.w (one writer at a time) and announces itself
CanLock(c) == mu[c].writer = 0
\* then waits for the readers that are inside to leave
CanEnter(c) == mu[c].readers = {} /\ ~mu[c].orphans

RLocked(m, t) == [m EXCEPT !.readers = @ \cup {t}]
RUnlocked(m, t) == [m EXCEPT !.readers = @ \ {t}]
\* Lock as it would be if it went in without looking at the readers
LockedAtOnce(m, t) == [m EXCEPT !.writer = t, !.active = TRUE]
Locked(m, t) == [m EXCEPT !.writer = t, !.active = (m.readers = {} /\ ~m.orphans)]
Entered(m) == [m EXCEPT !.active = TRUE]
\* Unlock as it would be if it left rw.w taken
WUnlockedKeepsW(m) == [m EXCEPT !.active = FALSE]
WUnlocked(m) == [m EXCEPT !.writer = 0, !.active = FALSE]
\* the goroutine that held the lock is gone without releasing it: the
\* reader count stays positive, rw.w stays taken
Abandoned(m, t) ==
    [m EXCEPT !.readers = @ \ {t},
              !.orphans = @ \/ t \in m.readers,
              !.writer = IF @ = t THEN -1 ELSE @]

HoldsRead(t, c) == t \in mu[c].readers
HoldsWrite(t, c) == mu[c].writer = t /\ mu[c].active
HoldsLock(t) == \E c \in Colls : HoldsRead(t, c) \/ mu[c].writer = t

\* ---------------------------------------------------------- construction
\* New.  The first definition panics on a nil extractor; the second has
\* no such check.  Both store values (no copy) and the extractor
New(n, f, e) ==
    /\ ~made[1]
    /\ IF impl = "dsu" /\ e = "nil"
       THEN /\ newPanic' = TRUE
            /\ UNCHANGED <<input, made, fte, slice, heap, extract>>
       ELSE /\ newPanic' = FALSE
            /\ input' = Iota(n)
            /\ made' = [made EXCEPT ![1] = TRUE]
            /\ fte' = [fte EXCEPT ![1] = e]
            /\ slice' = [slice EXCEPT ![1] = FreshRef(heap)]
            /\ heap' = [heap EXCEPT ![FreshRef(heap)] = Iota(n)]
            /\ extract' = f
    /\ UNCHANGED <<ext, impl, mu, pc, call, loc, ret, lastSort>>

\* ------------------------------------------------------------ the callers
\* the calls of Clone that have not built their collection yet (each will
\* need a free slot of the model)
Cloning == {t \in Threads : call[t].op = "Clone" /\ pc[t] # "done"}

\* the first statement of op: Swap takes the write lock, and so do SortAsc
\* and SortDesc of the second definition; every other operation, and
\* SortAsc and SortDesc of the first definition, take the read lock
Entry(op) ==
    IF op = "Swap" \/ (impl = "inplace" /\ op \in {"SortAsc", "SortDesc"})
    THEN "Lock"
    ELSE "RLock"

\* a caller invokes op on collection c with positions i and j
Call(t, op, c, i, j) ==
    /\ pc[t] = "idle"
    /\ made[c]
    /\ op \notin IndexedOps => i = 0 /\ j = 0
    /\ op = "Clone" => Cardinality({d \in Colls : made[d]}) + Cardinality(Cloning) < Cardinality(Colls)
    /\ pc' = [pc EXCEPT ![t] = Entry(op)]
    /\ call' = [call EXCEPT ![t] = [op |-> op, c |-> c, i |-> i, j |-> j]]
    /\ UNCHANGED <<ext, impl, input, made, fte, slice, mu, heap, extract, loc, ret, newPanic, lastSort>>

\* the operation has returned: the caller lets the returned slice go, and
\* keeps the returned clone or lets it go as well (a clone some thread is
\* operating on is still referenced)
Return(t, keep) ==
    /\ pc[t] = "done"
    /\ ret[t].kind # "clone" => keep
    /\ ~keep => \A u \in Threads : call[u].c # ret[t].val
    /\ pc' = [pc EXCEPT ![t] = "idle"]
    /\ call' = [call EXCEPT ![t] = NoCall]
    /\ loc' = [loc EXCEPT ![t] = NoLoc]
    /\ ret' = [ret EXCEPT ![t] = NoRet]
    /\ IF keep
       THEN UNCHANGED <<ext, impl, input, made, fte, slice, mu>>
       ELSE /\ made' = [made EXCEPT ![ret[t].val] = FALSE]
            /\ fte' = [fte EXCEPT ![ret[t].val] = "none"]
            /\ slice' = [slice EXCEPT ![ret[t].val] = 0]
            /\ mu' = [mu EXCEPT ![ret[t].val] = Unlocked]
    /\ heap' = Collect(heap, slice', ret')
    /\ UNCHANGED <<ext, impl, input, extract, newPanic, lastSort>>

\* the operation has panicked: the caller recovers; whatever lock the
\* operation still held is never released
Recover(t) ==
    /\ pc[t] = "panicked"
    /\ pc' = [pc EXCEPT ![t] = "idle"]
    /\ call' = [call EXCEPT ![t] = NoCall]
    /\ loc' = [loc EXCEPT ![t] = NoLoc]
    /\ ret' = [ret EXCEPT ![t] = NoRet]
    /\ mu' = [c \in Colls |-> Abandoned(mu[c], t)]
    /\ UNCHANGED <<ext, impl, input, made, fte, slice, heap, extract, newPanic, lastSort>>

\* the caller of Items writes into the slice it was given
MutateReturned(t, a, b) ==
    /\ pc[t] = "done"
    /\ ret[t].kind = "items"
    /\ a \in 1..Len(heap[ret[t].val])
    /\ b \in 1..Len(heap[ret[t].val])
    /\ a < b
    /\ heap' = [heap EXCEPT ![ret[t].val] = SwapAt(@, a, b)]
    /\ UNCHANGED <<ext, impl, input, made, fte, slice, mu, extract, pc, call, loc, ret, newPanic, lastSort>>

\* the caller lets a clone go that no thread is operating on
Drop(c) ==
    /\ c # 1
    /\ made[c]
    /\ \A t \in Threads : call[t].c # c /\ ~(ret[t].kind = "clone" /\ ret[t].val = c)
    /\ made' = [made EXCEPT ![c] = FALSE]
    /\ fte' = [fte EXCEPT ![c] = "none"]
    /\ slice' = [slice EXCEPT ![c] = 0]
    /\ mu' = [mu EXCEPT ![c] = Unlocked]
    /\ heap' = Collect(heap, slice', ret)
    /\ UNCHANGED <<ext, impl, input, extract, pc, call, loc, ret, newPanic, lastSort>>

\* ------------------------------------------- operations, first definition
Self(t) == call[t].c
IsSort(t) == call[t].op \in {"SortAsc", "SortDesc"}
InRange(c, i) == i >= 0 /\ i < Len(Stored(c))

\* where an operation goes once it has the read lock
AfterRLock(op) ==
    CASE op = "Len" -> "LenBody"
      [] op \in {"LessAsc", "LessDesc"} ->
            IF impl = "dsu" THEN "LessRead" ELSE "OldLessExtract"
      [] op \in {"SortAsc", "SortDesc"} -> "SortCopy"
      [] op = "Items" -> "ItemsCopy"
      [] OTHER -> "CloneCopy"

\* where an operation goes once it has the write lock
AfterLock(op) ==
    CASE op = "Swap" -> "SwapFirst"
      [] impl = "dsu" -> "SortPublish"
      [] OTHER -> "OldSortCmp"

\* ts.mu.RLock()
AcquireRLock(t) ==
    /\ pc[t] = "RLock"
    /\ CanRLock(Self(t))
    /\ mu' = [mu EXCEPT ![Self(t)] = RLocked(@, t)]
    /\ pc' = [pc EXCEPT ![t] = AfterRLock(call[t].op)]
    /\ UNCHANGED <<ext, impl, input, made, fte, slice, heap, extract, call, loc, ret, newPanic, lastSort>>

\* ts.mu.Lock(): take rw.w and announce the writer
AcquireLock(t) ==
    /\ pc[t] = "Lock"
    /\ CanLock(Self(t))
    /\ mu' = [mu EXCEPT ![Self(t)] = Locked(@, t)]
    /\ pc' = [pc EXCEPT ![t] = IF mu'[Self(t)].active THEN AfterLock(call[t].op) ELSE "LockWait"]
    /\ UNCHANGED <<ext, impl, input, made, fte, slice, heap, extract, call, loc, ret, newPanic, lastSort>>

\* ts.mu.Lock(): the last reader has left
EnterLock(t) ==
    /\ pc[t] = "LockWait"
    /\ CanEnter(Self(t))
    /\ mu' = [mu EXCEPT ![Self(t)] = Entered(@)]
    /\ pc' = [pc EXCEPT ![t] = AfterLock(call[t].op)]
    /\ UNCHANGED <<ext, impl, input, made, fte, slice, heap, extract, call, loc, ret, newPanic, lastSort>>

\* Len: return len(ts.slice), deferred RUnlock
LenBody(t) ==
    /\ pc[t] = "LenBody"
    /\ ret' = [ret EXCEPT ![t] = [kind |-> "len", val |-> Len(Stored(Self(t)))]]
    /\ mu' = [mu EXCEPT ![Self(t)] = RUnlocked(@, t)]
    /\ pc' = [pc EXCEPT ![t] = "done"]
    /\ UNCHANGED <<ext, impl, input, made, fte, slice, heap, extract, call, loc, newPanic, lastSort>>

\* LessAsc/LessDesc: v1 := ts.slice[i]; v2 := ts.slice[j]; RUnlock.  An index
\* out of range panics at the read, before the RUnlock statement is reached
LessRead(t) ==
    /\ pc[t] = "LessRead"
    /\ IF InRange(Self(t), call[t].i) /\ InRange(Self(t), call[t].j)
       THEN /\ loc' = [loc EXCEPT ![t].v1 = Stored(Self(t))[call[t].i + 1],
                                  ![t].v2 = Stored(Self(t))[call[t].j + 1]]
            /\ mu' = [mu EXCEPT ![Self(t)] = RUnlocked(@, t)]
            /\ pc' = [pc EXCEPT ![t] = "LessExtract"]
       ELSE /\ pc' = [pc EXCEPT ![t] = "panicked"]
            /\ UNCHANGED <<loc, mu>>
    /\ UNCHANGED <<ext, impl, input, made, fte, slice, heap, extract, call, ret, newPanic, lastSort>>

\* LessAsc / LessDesc as they would be with Before and After exchanged
LessResultInverted(op, t1, t2) == IF op = "LessAsc" THEN After(t1, t2) ELSE Before(t1, t2)

\* LessAsc / LessDesc as they would be with "not after" / "not before"
LessResultOrEqual(op, t1, t2) == IF op = "LessAsc" THEN ~After(t1, t2) ELSE ~Before(t1, t2)

\* the value LessAsc / LessDesc returns for the two times
LessResult(op, t1, t2) == IF op = "LessAsc" THEN Before(t1, t2) ELSE After(t1, t2)

\* LessAsc/LessDesc: t1 := extractor(v1); t2 := extractor(v2); return
LessExtract(t) ==
    /\ pc[t] = "LessExtract"
    /\ fte[Self(t)] = "fn"
    /\ ret' = [ret EXCEPT ![t] =
                 [kind |-> "bool",
                  val |-> IF LessResult(call[t].op, extract[loc[t].v1], extract[loc[t].v2])
                          THEN 1 ELSE 0]]
    /\ pc' = [pc EXCEPT ![t] = "done"]
    /\ loc' = [loc EXCEPT ![t] = [NoLoc EXCEPT !.calls = 2]]
    /\ UNCHANGED <<ext, impl, input, made, fte, slice, mu, heap, extract, call, newPanic, lastSort>>

\* LessAsc/LessDesc: the extractor panics
LessExtractPanic(t) ==
    /\ pc[t] = "LessExtract"
    /\ pc' = [pc EXCEPT ![t] = "panicked"]
    /\ UNCHANGED <<ext, impl, input, made, fte, slice, mu, heap, extract, call, loc, ret, newPanic, lastSort>>

\* Swap: both operands are read, then ts.slice[i] is assigned (loc.buf is
\* history: the sequence the call found).  An index
\* out of range panics before any assignment; the Unlock of the first
\* definition is deferred and runs, that of the second is not reached
SwapFirst(t) ==
    /\ pc[t] = "SwapFirst"
    /\ IF InRange(Self(t), call[t].i) /\ InRange(Self(t), call[t].j)
       THEN /\ loc' = [loc EXCEPT ![t].v1 = Stored(Self(t))[call[t].i + 1],
                                  ![t].v2 = Stored(Self(t))[call[t].j + 1],
                                  ![t].buf = Stored(Self(t))]
            /\ heap' = [heap EXCEPT ![slice[Self(t)]][call[t].i + 1] =
                                        Stored(Self(t))[call[t].j + 1]]
            /\ pc' = [pc EXCEPT ![t] = "SwapSecond"]
            /\ lastSort' = IF Self(t) = 1 THEN "none" ELSE lastSort
            /\ UNCHANGED mu
       ELSE /\ mu' = [mu EXCEPT ![Self(t)] = IF impl = "dsu" THEN WUnlocked(@) ELSE @]
            /\ pc' = [pc EXCEPT ![t] = "panicked"]
            /\ UNCHANGED <<loc, heap, lastSort>>
    /\ UNCHANGED <<ext, impl, input, made, fte, slice, extract, call, ret, newPanic>>

\* Swap as it would be with ts.slice[i] = ts.slice[j]; ts.slice[j] = ts.slice[i]
SwapSecondReread(t) ==
    /\ pc[t] = "SwapSecond"
    /\ heap' = [heap EXCEPT ![slice[Self(t)]][call[t].j + 1] = Stored(Self(t))[call[t].i + 1]]
    /\ mu' = [mu EXCEPT ![Self(t)] = WUnlocked(@)]
    /\ pc' = [pc EXCEPT ![t] = "done"]
    /\ loc' = [loc EXCEPT ![t] = NoLoc]
    /\ UNCHANGED <<ext, impl, input, made, fte, slice, extract, call, ret, newPanic, lastSort>>

\* Swap: ts.slice[j] is assigned, deferred Unlock
SwapSecond(t) ==
    /\ pc[t] = "SwapSecond"
    /\ heap' = [heap EXCEPT ![slice[Self(t)]][call[t].j + 1] = loc[t].v1]
    /\ mu' = [mu EXCEPT ![Self(t)] = WUnlocked(@)]
    /\ pc' = [pc EXCEPT ![t] = "done"]
    /\ loc' = [loc EXCEPT ![t] = NoLoc]
    /\ UNCHANGED <<ext, impl, input, made, fte, slice, extract, call, ret, newPanic, lastSort>>

\* copy(dst, ts.slice), one element: the read lock is held, so ts.slice is
\* the slice the copy started from
CopyElement(t) ==
    /\ pc[t] \in {"SortCopy", "ItemsCopy", "CloneCopy"}
    /\ Len(loc[t].buf) < Len(Stored(Self(t)))
    /\ loc' = [loc EXCEPT ![t].buf = Append(@, Stored(Self(t))[Len(@) + 1])]
    /\ UNCHANGED <<ext, impl, input, made, fte, slice, mu, heap, extract, pc, call, ret, newPanic, lastSort>>

\* SortAsc/SortDesc: the snapshot is complete; RUnlock; if n == 0 return
SortCopied(t) ==
    /\ pc[t] = "SortCopy"
    /\ Len(loc[t].buf) = Len(Stored(Self(t)))
    /\ mu' = [mu EXCEPT ![Self(t)] = RUnlocked(@, t)]
    /\ pc' = [pc EXCEPT ![t] = IF Len(loc[t].buf) = 0 THEN "done" ELSE "SortFill"]
    /\ UNCHANGED <<ext, impl, input, made, fte, slice, heap, extract, call, loc, ret, newPanic, lastSort>>

\* SortAsc/SortDesc: times[i] = extractor(orig[i]) for the next i.  The
\* buffer comes from timeSlicePool or from make; every entry up to n is
\* written here before the sort reads it, so only the written part is kept
SortFill(t) ==
    /\ pc[t] = "SortFill"
    /\ fte[Self(t)] = "fn"
    /\ loc' = [loc EXCEPT ![t].times = Append(@, extract[loc[t].buf[Len(@) + 1]]),
                         ![t].calls = @ + 1]
    /\ pc' = [pc EXCEPT ![t] = IF Len(loc'[t].times) = Len(loc[t].buf)
                               THEN "SortSort" ELSE "SortFill"]
    /\ UNCHANGED <<ext, impl, input, made, fte, slice, mu, heap, extract, call, ret, newPanic, lastSort>>

\* SortAsc/SortDesc: the extractor panics
SortFillPanic(t) ==
    /\ pc[t] = "SortFill"
    /\ pc' = [pc EXCEPT ![t] = "panicked"]
    /\ UNCHANGED <<ext, impl, input, made, fte, slice, mu, heap, extract, call, loc, ret, newPanic, lastSort>>

\* SortAsc/SortDesc: idxs, sort.SliceStable over the keys, newSlice
SortSort(t) ==
    /\ pc[t] = "SortSort"
    /\ loc' = [loc EXCEPT ![t].buf = SortedByKeys(loc[t].buf, loc[t].times,
                                                  call[t].op = "SortAsc")]
    /\ pc' = [pc EXCEPT ![t] = "Lock"]
    /\ UNCHANGED <<ext, impl, input, made, fte, slice, mu, heap, extract, call, ret, newPanic, lastSort>>

\* the publish step as it would be without the assignment ts.slice = newSlice
PublishedNothing(c, r) == slice

\* the reference ts.slice holds after the publish step assigns newSlice
Published(c, r) == [slice EXCEPT ![c] = r]

\* SortAsc/SortDesc: ts.slice = newSlice; Unlock; the buffers go back to
\* the pools
SortPublish(t) ==
    /\ pc[t] = "SortPublish"
    /\ slice' = Published(Self(t), FreshRef(heap))
    /\ heap' = Collect([heap EXCEPT ![FreshRef(heap)] = loc[t].buf], slice', ret)
    /\ mu' = [mu EXCEPT ![Self(t)] = WUnlocked(@)]
    /\ pc' = [pc EXCEPT ![t] = "done"]
    /\ lastSort' = IF Self(t) = 1 THEN call[t].op ELSE lastSort
    /\ loc' = [loc EXCEPT ![t] = [NoLoc EXCEPT !.calls = loc[t].calls]]
    /\ UNCHANGED <<ext, impl, input, made, fte, extract, call, ret, newPanic>>

\* Items as it would be if it returned ts.slice itself
ItemsResultShared(c, r) == slice[c]

\* the slice Items hands to its caller: the copy it made
ItemsResult(c, r) == r

\* Items: the copy is complete; return copied, deferred RUnlock
ItemsCopied(t) ==
    /\ pc[t] = "ItemsCopy"
    /\ Len(loc[t].buf) = Len(Stored(Self(t)))
    /\ ret' = [ret EXCEPT ![t] = [kind |-> "items",
                                   val |-> ItemsResult(Self(t), FreshRef(heap))]]
    /\ heap' = Collect([heap EXCEPT ![FreshRef(heap)] = loc[t].buf], slice, ret')
    /\ mu' = [mu EXCEPT ![Self(t)] = RUnlocked(@, t)]
    /\ pc' = [pc EXCEPT ![t] = "done"]
    /\ loc' = [loc EXCEPT ![t] = NoLoc]
    /\ UNCHANGED <<ext, impl, input, made, fte, slice, extract, call, newPanic, lastSort>>

\* Clone as it would be if the clone took ts.slice itself
CloneSliceShared(c, r) == slice[c]

\* the slice field of the TimeSlice that Clone builds
CloneSlice(c, r) == r

\* Clone: the copy is complete; return &TimeSlice{extractor, newSlice},
\* deferred RUnlock
CloneCopied(t) ==
    /\ pc[t] = "CloneCopy"
    /\ Len(loc[t].buf) = Len(Stored(Self(t)))
    /\ made' = [made EXCEPT ![FreeColl] = TRUE]
    /\ fte' = [fte EXCEPT ![FreeColl] = fte[Self(t)]]
    /\ slice' = [slice EXCEPT ![FreeColl] = CloneSlice(Self(t), FreshRef(heap))]
    /\ heap' = Collect([heap EXCEPT ![FreshRef(heap)] = loc[t].buf], slice', ret)
    /\ mu' = [mu EXCEPT ![Self(t)] = RUnlocked(@, t)]
    /\ ret' = [ret EXCEPT ![t] = [kind |-> "clone", val |-> FreeColl]]
    /\ pc' = [pc EXCEPT ![t] = "done"]
    /\ loc' = [loc EXCEPT ![t] = NoLoc]
    /\ UNCHANGED <<ext, impl, input, extract, call, newPanic, lastSort>>

\* ------------------------------------------ operations, second definition
\* Len, Swap, Items and Clone of the second definition are those of the
\* first (Swap without defer, see SwapFirst).

\* LessAsc/LessDesc: t1 := extractor(ts.slice[i]); t2 := extractor(ts.slice[j])
\* with the read lock held; RUnlock; return
OldLessExtract(t) ==
    /\ pc[t] = "OldLessExtract"
    /\ InRange(Self(t), call[t].i) /\ InRange(Self(t), call[t].j)
    /\ fte[Self(t)] = "fn"
    /\ ret' = [ret EXCEPT ![t] =
                 [kind |-> "bool",
                  val |-> IF LessResult(call[t].op,
                                        extract[Stored(Self(t))[call[t].i + 1]],
                                        extract[Stored(Self(t))[call[t].j + 1]])
                          THEN 1 ELSE 0]]
    /\ mu' = [mu EXCEPT ![Self(t)] = RUnlocked(@, t)]
    /\ pc' = [pc EXCEPT ![t] = "done"]
    /\ loc' = [loc EXCEPT ![t].calls = 2]
    /\ UNCHANGED <<ext, impl, input, made, fte, slice, heap, extract, call, newPanic, lastSort>>

\* LessAsc/LessDesc: the extractor panics (or is nil, or an index is out of
\* range): the RUnlock statement is not reached
OldLessExtractPanic(t) ==
    /\ pc[t] = "OldLessExtract"
    /\ pc' = [pc EXCEPT ![t] = "panicked"]
    /\ UNCHANGED <<ext, impl, input, made, fte, slice, mu, heap, extract, call, loc, ret, newPanic, lastSort>>

\* the less function of the second definition, over the stored elements:
\* extractor(ts.slice[i]).Before(extractor(ts.slice[j])), or After
OldLess(s, asc, x, y) ==
    IF asc THEN Before(extract[s[x]], extract[s[y]])
    ELSE After(extract[s[x]], extract[s[y]])

\* SortAsc/SortDesc: sort.SliceStable(ts.slice, less) has the write lock
\* and starts its insertion sort at i = 1, j = i.  loc.buf records the
\* sequence the call found (history; the code keeps no such copy)
OldSortStart(t) ==
    /\ pc[t] = "OldSortCmp"
    /\ loc[t].i = 0
    /\ loc' = [loc EXCEPT ![t].i = 1, ![t].j = 1, ![t].buf = Stored(Self(t))]
    /\ UNCHANGED <<ext, impl, input, made, fte, slice, mu, heap, extract, pc, call, ret, newPanic, lastSort>>

\* SortAsc/SortDesc: one evaluation of less(j, j-1) of the insertion sort,
\* which calls the extractor twice, and the swap that follows when it holds
\* (0-based i and j as in the library)
OldSortCmp(t) ==
    /\ pc[t] = "OldSortCmp"
    /\ loc[t].i >= 1
    /\ loc[t].i < Len(Stored(Self(t)))
    /\ fte[Self(t)] = "fn"
    /\ IF OldLess(Stored(Self(t)), call[t].op = "SortAsc", loc[t].j + 1, loc[t].j)
       THEN /\ heap' = [heap EXCEPT ![slice[Self(t)]] = SwapAt(@, loc[t].j + 1, loc[t].j)]
            /\ loc' = IF loc[t].j - 1 > 0
                      THEN [loc EXCEPT ![t].j = @ - 1, ![t].calls = @ + 2]
                      ELSE [loc EXCEPT ![t].i = @ + 1, ![t].j = loc[t].i + 1, ![t].calls = @ + 2]
       ELSE /\ heap' = heap
            /\ loc' = [loc EXCEPT ![t].i = @ + 1, ![t].j = loc[t].i + 1, ![t].calls = @ + 2]
    /\ UNCHANGED <<ext, impl, input, made, fte, slice, mu, extract, pc, call, ret, newPanic, lastSort>>

\* SortAsc/SortDesc: the extractor panics inside less (or is nil): the
\* Unlock statement is not reached
OldSortCmpPanic(t) ==
    /\ pc[t] = "OldSortCmp"
    /\ loc[t].i >= 1
    /\ loc[t].i < Len(Stored(Self(t)))
    /\ pc' = [pc EXCEPT ![t] = "panicked"]
    /\ UNCHANGED <<ext, impl, input, made, fte, slice, mu, heap, extract, call, loc, ret, newPanic, lastSort>>

\* SortAsc/SortDesc: the insertion sort is over; Unlock
OldSortDone(t) ==
    /\ pc[t] = "OldSortCmp"
    /\ loc[t].i >= 1
    /\ loc[t].i >= Len(Stored(Self(t)))
    /\ mu' = [mu EXCEPT ![Self(t)] = WUnlocked(@)]
    /\ pc' = [pc EXCEPT ![t] = "done"]
    /\ loc' = [loc EXCEPT ![t] = [NoLoc EXCEPT !.calls = loc[t].calls]]
    /\ lastSort' = IF Self(t) = 1 THEN call[t].op ELSE lastSort
    /\ UNCHANGED <<ext, impl, input, made, fte, slice, heap, extract, call, ret, newPanic>>

\* ------------------------------------------------------ specifications
\* the steps of SortAsc and SortDesc between the locks
SortSteps(t) ==
    \/ CopyElement(t)
    \/ SortCopied(t)
    \/ SortFill(t)
    \/ SortSort(t)
    \/ SortPublish(t)

\* the steps of Len and Items between the locks
ReadSteps(t) ==
    \/ LenBody(t)
    \/ ItemsCopied(t)

\* the steps of LessAsc, LessDesc and Swap between the locks
IndexedSteps(t) ==
    \/ LessRead(t)
    \/ LessExtract(t)
    \/ SwapFirst(t)
    \/ SwapSecond(t)

\* one step of the operation thread t runs, the extractor returning
Step(t) ==
    \/ AcquireRLock(t)
    \/ AcquireLock(t)
    \/ EnterLock(t)
    \/ SortSteps(t)
    \/ ReadSteps(t)
    \/ IndexedSteps(t)
    \/ CloneCopied(t)

\* a step in which the caller-supplied extractor panics, and the caller's
\* recovery
Fail(t) ==
    \/ LessExtractPanic(t)
    \/ SortFillPanic(t)
    \/ Recover(t)

\* the extractors handed to New for a slice of n elements (the times of
\* identities that are not in the slice do not matter)
Extractors(n, nt) ==
    {f \in [Ids -> 1..nt] : \A e \in Ids : e > n => f[e] = 1}

\* those of them that give the n elements of the slice n different times
DistinctExtractors(n, nt) ==
    {f \in Extractors(n, nt) : \A a \in 1..n, b \in 1..n : a # b => f[a] # f[b]}

\* thread t, idle, calls one of ops on collection c, with positions that
\* are indices of c's slice
ValidCalls(t, ops, c) ==
    /\ pc[t] = "idle"
    /\ made[c]
    /\ \/ \E op \in ops \ IndexedOps : Call(t, op, c, 0, 0)
       \/ \E op \in ops \cap IndexedOps :
             \E i \in 0..(Len(Stored(c)) - 1), j \in 0..(Len(Stored(c)) - 1) :
                Call(t, op, c, i, j)

\* Several threads run every operation on the collection New built, with
\* valid positions; the extractor may panic; clones are let go on return.
Next ==
    \/ ~made[1] /\ \E n \in 0..ConcLen : \E f \in Extractors(n, ConcTimes), e \in {"fn", "nil"} : New(n, f, e)
    \/ \E t \in Threads : ValidCalls(t, AllOps, 1)
    \/ \E t \in Threads : Step(t)
    \/ \E t \in Threads : Fail(t)
    \/ \E t \in Threads : Return(t, ret[t].kind # "clone")

Spec == Init /\ [][Next]_vars

\* One thread runs SortAsc, SortDesc, Len and Items, one call after the
\* other; the extractor returns.
NextSort ==
    \/ ~made[1] /\ \E n \in 0..MaxLen : \E f \in Extractors(n, NTimes) : New(n, f, "fn")
    \/ ValidCalls(1, {"SortAsc", "SortDesc", "Len", "Items"}, 1)
    \/ AcquireRLock(1)
    \/ AcquireLock(1)
    \/ SortSteps(1)
    \/ ReadSteps(1)
    \/ Return(1, TRUE)

SpecSort == Init /\ [][NextSort]_vars

\* Second definition of the package: several threads run every operation
\* on the collection New built, with valid positions; the extractor may be
\* nil and may panic.
OldStep(t) ==
    \/ AcquireRLock(t)
    \/ AcquireLock(t)
    \/ EnterLock(t)
    \/ ReadSteps(t)
    \/ CopyElement(t)
    \/ CloneCopied(t)
    \/ SwapFirst(t)
    \/ SwapSecond(t)
    \/ OldLessExtract(t)
    \/ OldSortStart(t)
    \/ OldSortCmp(t)
    \/ OldSortDone(t)

OldFail(t) ==
    \/ OldLessExtractPanic(t)
    \/ OldSortCmpPanic(t)
    \/ Recover(t)

NextOld ==
    \/ ~made[1] /\ \E n \in 0..ConcLen : \E f \in Extractors(n, ConcTimes), e \in {"fn", "nil"} : New(n, f, e)
    \/ \E t \in Threads : ValidCalls(t, AllOps, 1)
    \/ \E t \in Threads : OldStep(t)
    \/ \E t \in Threads : OldFail(t)
    \/ \E t \in Threads : Return(t, ret[t].kind # "clone")

SpecOld == InitOf("inplace") /\ [][NextOld]_vars

\* Several threads run Len, Items, SortAsc, SortDesc, Swap (valid
\* positions) and Clone on the collection New built; the extractor returns.
\* Every thread that can take a step of its operation infinitely often
\* takes one: a goroutine that is runnable runs, sync.Mutex hands rw.w to a
\* starving waiter, and Unlock admits the readers that wait for it.
LiveOps == {"Len", "Items", "SortAsc", "SortDesc", "Swap", "Clone"}

LiveStep(t) ==
    \/ AcquireRLock(t)
    \/ AcquireLock(t)
    \/ EnterLock(t)
    \/ SortSteps(t)
    \/ ReadSteps(t)
    \/ SwapFirst(t)
    \/ SwapSecond(t)
    \/ CloneCopied(t)

NextLive ==
    \/ ~made[1] /\ \E n \in 0..ConcLen : \E f \in Extractors(n, ConcTimes) : New(n, f, "fn")
    \/ \E t \in Threads : ValidCalls(t, LiveOps, 1)
    \/ \E t \in Threads : LiveStep(t)
    \/ \E t \in Threads : Return(t, ret[t].kind # "clone")

SpecLive ==
    /\ Init
    /\ [][NextLive]_vars
    /\ \A t \in Threads : SF_vars(LiveStep(t))

\* Several threads run Clone, Items, Swap, SortAsc and SortDesc on the
\* collection New built and on its clones; a caller writes into the slice
\* Items gave it, keeps a clone or lets it go; the extractor returns, and
\* gives every element a time of its own.
IsoOps == {"Clone", "Items", "Swap", "SortAsc", "SortDesc"}

IsoStep(t) ==
    \/ AcquireRLock(t)
    \/ AcquireLock(t)
    \/ EnterLock(t)
    \/ SortSteps(t)
    \/ ItemsCopied(t)
    \/ SwapFirst(t)
    \/ SwapSecond(t)
    \/ CloneCopied(t)

NextIso ==
    \/ ~made[1] /\ \E n \in 0..ConcLen : \E f \in DistinctExtractors(n, ConcTimes) : New(n, f, "fn")
    \/ \E t \in Threads, c \in Colls : ValidCalls(t, IsoOps, c)
    \/ \E t \in Threads : IsoStep(t)
    \/ \E t \in Threads, keep \in BOOLEAN : Return(t, keep)
    \/ \E t \in Threads, a \in 1..ConcLen, b \in 1..ConcLen : MutateReturned(t, a, b)
    \/ \E c \in Colls : Drop(c)

SpecIso == Init /\ [][NextIso]_vars

\* ------------------------------------------------- sort.Interface caller
\* A caller uses collection 1 as a sort.Interface, from one goroutine
\* (thread 1), and runs the insertion sort
\*   for i := 1; i < n; i++ { for j := i; j > 0 && Less(j, j-1); j-- { Swap(j, j-1) } }
\* with Less being LessAsc or LessDesc.

\* thread 1 invokes op with positions i and j on collection 1
ExtInvoke(op, i, j) ==
    /\ pc[1] = "idle"
    /\ pc' = [pc EXCEPT ![1] = Entry(op)]
    /\ call' = [call EXCEPT ![1] = [op |-> op, c |-> 1, i |-> i, j |-> j]]
    /\ UNCHANGED <<impl, input, made, fte, slice, mu, heap, extract, loc, ret, newPanic, lastSort>>

\* thread 1 takes the result of the operation that has returned
ExtTake ==
    /\ pc[1] = "done"
    /\ pc' = [pc EXCEPT ![1] = "idle"]
    /\ call' = [call EXCEPT ![1] = NoCall]
    /\ loc' = [loc EXCEPT ![1] = NoLoc]
    /\ ret' = [ret EXCEPT ![1] = NoRet]
    /\ UNCHANGED <<impl, input, made, fte, slice, mu, heap, extract, newPanic, lastSort>>

\* i++ of the outer loop, or the end of the sort
ExtAdvance(e) ==
    IF e.i + 1 < e.n
    THEN [e EXCEPT !.at = "test", !.i = e.i + 1, !.j = e.i + 1]
    ELSE [e EXCEPT !.at = "sorted"]

\* n := data.Len()
ExtLen(less) ==
    /\ ext.at \in {"off", "sorted"}
    /\ made[1]
    /\ ExtInvoke("Len", 0, 0)
    /\ ext' = [NoExt EXCEPT !.at = "len", !.less = less]

\* i := 1; j := i
ExtLoop ==
    /\ ext.at = "len"
    /\ ExtTake
    /\ ext' = IF 1 < ret[1].val
              THEN [ext EXCEPT !.at = "test", !.n = ret[1].val, !.i = 1, !.j = 1]
              ELSE [ext EXCEPT !.at = "sorted", !.n = ret[1].val]

\* data.Less(j, j-1)
ExtLess ==
    /\ ext.at = "test"
    /\ ExtInvoke(ext.less, ext.j, ext.j - 1)
    /\ ext' = [ext EXCEPT !.at = "less"]

\* Less has returned: swap, or leave the inner loop
ExtTested ==
    /\ ext.at = "less"
    /\ ExtTake
    /\ ext' = IF ret[1].val = 1 THEN [ext EXCEPT !.at = "swap"] ELSE ExtAdvance(ext)

\* data.Swap(j, j-1)
ExtSwap ==
    /\ ext.at = "swap"
    /\ ExtInvoke("Swap", ext.j, ext.j - 1)
    /\ ext' = [ext EXCEPT !.at = "swapping"]

\* Swap has returned: j--, and leave the inner loop when j reaches 0
ExtSwapped ==
    /\ ext.at = "swapping"
    /\ ExtTake
    /\ ext' = IF ext.j - 1 > 0
              THEN [ext EXCEPT !.at = "test", !.j = ext.j - 1]
              ELSE ExtAdvance(ext)

\* One goroutine sorts the collection New built through Len, LessAsc or
\* LessDesc, and Swap, over and over; the extractor returns.
NextExt ==
    \/ ~made[1] /\ \E n \in 0..MaxLen : \E f \in Extractors(n, NTimes) : New(n, f, "fn")
    \/ \E less \in {"LessAsc", "LessDesc"} : ExtLen(less)
    \/ ExtLoop
    \/ ExtLess
    \/ ExtTested
    \/ ExtSwap
    \/ ExtSwapped
    \/ AcquireRLock(1)
    \/ AcquireLock(1)
    \/ LenBody(1)
    \/ LessRead(1)
    \/ LessExtract(1)
    \/ SwapFirst(1)
    \/ SwapSecond(1)

SpecExt == Init /\ [][NextExt]_vars

\* Second definition of the package: one thread runs SortAsc and SortDesc,
\* one call after the other; the extractor returns.
NextOldSort ==
    \/ ~made[1] /\ \E n \in 0..MaxLen : \E f \in Extractors(n, NTimes) : New(n, f, "fn")
    \/ ValidCalls(1, {"SortAsc", "SortDesc"}, 1)
    \/ AcquireLock(1)
    \/ OldSortStart(1)
    \/ OldSortCmp(1)
    \/ OldSortDone(1)
    \/ Return(1, TRUE)

SpecOldSort == InitOf("inplace") /\ [][NextOldSort]_vars

\* Thread 1 runs one SortAsc or SortDesc while thread 2 runs one Swap with
\* valid positions, on the collection New built; the extractor returns.
NextRace ==
    \/ ~made[1] /\ \E n \in 0..MaxLen : \E f \in Extractors(n, NTimes) : New(n, f, "fn")
    \/ ValidCalls(1, {"SortAsc", "SortDesc"}, 1)
    \/ ValidCalls(2, {"Swap"}, 1)
    \/ AcquireRLock(1)
    \/ \E t \in {1, 2} : AcquireLock(t)
    \/ \E t \in {1, 2} : EnterLock(t)
    \/ SortSteps(1)
    \/ SwapFirst(2)
    \/ SwapSecond(2)

SpecRace == Init /\ [][NextRace]_vars

\* Several threads run LessAsc, LessDesc and Swap on the collection New
\* built, with positions inside and outside 0..Len()-1; the extractor
\* returns; a caller whose call panicked recovers and goes on.
BadPositions == -1..ConcLen

NextBad ==
    \/ ~made[1] /\ \E n \in 0..ConcLen : \E f \in Extractors(n, ConcTimes) : New(n, f, "fn")
    \/ \E t \in Threads, op \in IndexedOps, i \in BadPositions, j \in BadPositions :
          Call(t, op, 1, i, j)
    \/ \E t \in Threads : AcquireRLock(t)
    \/ \E t \in Threads : AcquireLock(t)
    \/ \E t \in Threads : EnterLock(t)
    \/ \E t \in Threads : IndexedSteps(t)
    \/ \E t \in Threads : Recover(t)
    \/ \E t \in Threads : Return(t, TRUE)

SpecBad == Init /\ [][NextBad]_vars

\* Several threads run SortAsc and SortDesc on the collection New built,
\* and nothing else; the extractor returns.
NextSorts ==
    \/ ~made[1] /\ \E n \in 0..MaxLen : \E f \in Extractors(n, NTimes) : New(n, f, "fn")
    \/ \E t \in Threads : ValidCalls(t, {"SortAsc", "SortDesc"}, 1)
    \/ \E t \in Threads : AcquireRLock(t)
    \/ \E t \in Threads : AcquireLock(t)
    \/ \E t \in Threads : EnterLock(t)
    \/ \E t \in Threads : SortSteps(t)
    \/ \E t \in Threads : Return(t, TRUE)

SpecSorts == Init /\ [][NextSorts]_vars

\* ---------------------------------------------------------------- claims
\* s is in ascending / descending order of extracted time
Ascending(s) ==
    \A k \in 1..(Len(s) - 1) : ~After(extract[s[k]], extract[s[k + 1]])
Descending(s) ==
    \A k \in 1..(Len(s) - 1) : ~Before(extract[s[k]], extract[s[k + 1]])

\* the extracted times of s are all distinct
DistinctTimes(s) ==
    \A p \in 1..Len(s), q \in 1..Len(s) : p # q => extract[s[p]] # extract[s[q]]

\* elements of s with equal times stand in the order they had in the slice
\* handed to New (which is <<1, ..., n>>)
TiesInInputOrder(s) ==
    \A p \in 1..Len(s), q \in 1..Len(s) :
        (p < q /\ extract[s[p]] = extract[s[q]]) => s[p] < s[q]

\* C1: when SortAsc has run to completion with no concurrent operation, no
\* element of the stored sequence has a time after that of its successor;
\* when SortDesc has, none has a time before that of its successor.
C1_SortedAfterSort ==
    (pc[1] = "done" /\ call[1].op \in {"SortAsc", "SortDesc"}) =>
        IF call[1].op = "SortAsc"
        THEN Ascending(Stored(1))
        ELSE Descending(Stored(1))

\* SortAsc has returned on a slice of MaxLen elements whose times were in
\* strictly descending order
C1_Witness ==
    /\ pc[1] = "done"
    /\ call[1].op = "SortAsc"
    /\ MaxLen >= 2
    /\ Stored(1) = Reverse(Iota(MaxLen))
    /\ DistinctTimes(Stored(1))

\* C2: after any sequence of SortAsc and SortDesc calls, with no Swap,
\* elements with equal times stand in the stored sequence in the relative
\* order they had in the input sequence.
C2_Stability == made[1] => TiesInInputOrder(Stored(1))

\* SortDesc has returned after SortAsc had rearranged the slice, the slice
\* holds two elements with equal times, and it is not in the input order
C2_Witness ==
    /\ pc[1] = "done"
    /\ call[1].op = "SortDesc"
    /\ Stored(1) # Iota(Len(Stored(1)))
    /\ \E p \in 1..Len(Stored(1)), q \in 1..Len(Stored(1)) :
          p < q /\ extract[Stored(1)[p]] = extract[Stored(1)[q]]
    /\ \E e \in Ids : extract[e] < extract[1]

\* C10: when SortDesc replaces the slice that SortAsc stored, with no
\* operation in between changing it and all times distinct, the new stored
\* sequence is the exact reverse of the one SortAsc stored.
C10_RoundTrip ==
    [][(/\ pc[1] = "SortPublish"
        /\ pc'[1] = "done"
        /\ call[1].op = "SortDesc"
        /\ lastSort = "SortAsc"
        /\ DistinctTimes(Stored(1)))
       => Stored(1)' = Reverse(Stored(1))]_vars

\* SortDesc is about to store its result over the slice SortAsc stored, of
\* MaxLen elements with distinct times
C10_Witness ==
    /\ pc[1] = "SortPublish"
    /\ call[1].op = "SortDesc"
    /\ lastSort = "SortAsc"
    /\ Len(Stored(1)) = MaxLen
    /\ MaxLen >= 2
    /\ DistinctTimes(Stored(1))
    /\ Stored(1) # Iota(MaxLen)

\* s holds every element of the slice handed to New once, and nothing else
IsPermutationOfInput(s) ==
    /\ Len(s) = Len(input)
    /\ \A e \in 1..Len(input) : Cardinality({k \in 1..Len(s) : s[k] = e}) = 1

\* some thread is between the two assignments of Swap on collection c
MidSwap(c) == \E t \in Threads : pc[t] = "SwapSecond" /\ call[t].c = c

\* C3: under any interleaving of the eight operations by several threads,
\* the stored sequence is a permutation of the initial sequence (same
\* length, nothing added, dropped or duplicated) in every state in which
\* no Swap is between its two assignments, and so is every snapshot a sort
\* has taken in full.
C3_Permutation ==
    /\ (made[1] /\ ~MidSwap(1)) => IsPermutationOfInput(Stored(1))
    /\ \A t \in Threads :
          pc[t] \in {"SortFill", "SortSort", "Lock", "LockWait", "SortPublish"}
          /\ IsSort(t) => IsPermutationOfInput(loc[t].buf)

\* a sort and a Swap(i, j), i # j, have both returned, on a slice of
\* ConcLen elements that is no longer in the order New was given
C3_Witness ==
    /\ \E t \in Threads, u \in Threads :
          /\ pc[t] = "done" /\ IsSort(t)
          /\ pc[u] = "done" /\ call[u].op = "Swap" /\ call[u].i # call[u].j
    /\ Len(Stored(1)) = ConcLen
    /\ ConcLen >= 2
    /\ Stored(1) # input

\* C4: every sequence Items returns and every sequence a fresh clone holds
\* is, at the step that completes the copy, equal to the complete stored
\* sequence, no Swap being between its two assignments; every Len result is
\* the length of the stored sequence at the step that reads it.
C4_NoTornRead ==
    [][\A t \in Threads :
          /\ (pc[t] = "ItemsCopy" /\ pc'[t] = "done") =>
                 (heap'[ret'[t].val] = Stored(Self(t)) /\ ~MidSwap(Self(t)))
          /\ (pc[t] = "CloneCopy" /\ pc'[t] = "done") =>
                 (heap'[slice'[ret'[t].val]] = Stored(Self(t)) /\ ~MidSwap(Self(t)))
          /\ (pc[t] = "LenBody" /\ pc'[t] = "done") =>
                 (ret'[t].val = Len(Stored(Self(t))) /\ ~MidSwap(Self(t)))]_vars

\* Items has returned a complete sequence of ConcLen elements, copied while
\* a Swap(i, j), i # j, was waiting for the write lock; the Swap is now
\* between its two assignments
C4_Witness ==
    \E t \in Threads, u \in Threads :
        /\ pc[t] = "done" /\ ret[t].kind = "items"
        /\ Len(heap[ret[t].val]) = ConcLen
        /\ ConcLen >= 2
        /\ IsPermutationOfInput(heap[ret[t].val])
        /\ pc[u] = "SwapSecond" /\ call[u].i # call[u].j
        /\ heap[ret[t].val] # Stored(1)

\* the next step of thread t calls the extractor its collection was given
AtExtractor(t) ==
    /\ \/ pc[t] \in {"LessExtract", "SortFill", "OldLessExtract"}
       \/ pc[t] = "OldSortCmp" /\ loc[t].i >= 1 /\ loc[t].i < Len(Stored(Self(t)))
    /\ fte[Self(t)] = "fn"

\* C7: no thread calls the extractor while it holds the read lock or the
\* write lock of the collection.
C7_ExtractorOutsideLock == \A t \in Threads : AtExtractor(t) => ~HoldsLock(t)

\* C7, first definition: a thread is about to call the extractor in SortAsc
\* on a snapshot of ConcLen elements while another thread is inside Swap
C7_FirstWitness ==
    \E t \in Threads, u \in Threads :
        /\ pc[t] = "SortFill" /\ Len(loc[t].buf) = ConcLen
        /\ pc[u] = "SwapSecond"

\* C8: when the extractor has failed in SortAsc, SortDesc, LessAsc or
\* LessDesc, the thread holds no lock of the collection, and a sort has not
\* changed the stored sequence it found.
C8_FailureLeavesNoTrace ==
    \A t \in Threads :
        (pc[t] = "panicked" /\ fte[Self(t)] = "fn") =>
            /\ ~HoldsLock(t)
            /\ (IsSort(t) /\ impl = "inplace") => Stored(Self(t)) = loc[t].buf

\* C8, lock part alone
C8_FailureLeavesNoLock ==
    \A t \in Threads : (pc[t] = "panicked" /\ fte[Self(t)] = "fn") => ~HoldsLock(t)

\* C8, first definition: a step that ends in the failure of the extractor
\* changes no stored sequence
C8_FirstFailureWritesNothing ==
    [][\A t \in Threads : (pc'[t] = "panicked" /\ pc[t] # "panicked") =>
          (heap' = heap /\ slice' = slice)]_vars

\* C9: New with a nil extractor yields no collection: every collection that
\* exists has its extractor.
C9_ExtractorPresent == \A c \in Colls : made[c] => fte[c] = "fn"

\* thread t is inside an operation that has not returned
Running(t) == pc[t] \notin {"idle", "done", "panicked"}

\* C5: with Len, Items, SortAsc, SortDesc, Swap and Clone invoked
\* concurrently under fair scheduling, every invoked operation eventually
\* returns.
C5_EveryCallReturns == \A t \in Threads : Running(t) ~> (pc[t] = "done")

\* C5, safety part: no state has every running thread blocked
C5_NoDeadlock ==
    (\E t \in Threads : Running(t)) => (\E t \in Threads : ENABLED LiveStep(t))

\* a Swap waits for the write lock while a sort copies under the read lock
\* and waits in turn: the writer for the reader inside
C5_Witness ==
    \E t \in Threads, u \in Threads :
        /\ pc[t] = "LockWait" /\ call[t].op = "Swap"
        /\ pc[u] = "SortCopy" /\ HoldsRead(u, 1)
        /\ Len(Stored(1)) = ConcLen

\* thread t takes, in this step, a step of Swap, SortAsc or SortDesc that
\* writes the stored sequence of the collection it was invoked on
WritesOwn(t, d) ==
    /\ call[t].c = d
    /\ pc[t] \in {"SwapFirst", "SwapSecond", "SortPublish"}
    /\ pc'[t] # pc[t]

\* thread t holds, before and after this step, the slice Items gave it
KeepsItems(t) == ret[t].kind = "items" /\ ret'[t] = ret[t]

\* C6: the stored sequence of a collection changes only in a step of Swap,
\* SortAsc or SortDesc invoked on that very collection (never by an
\* operation on its clone or its original, never by a write into a slice
\* Items returned); a slice Items returned changes only when its holder
\* writes into it; and the clone Clone returns holds the original's sequence.
C6_Isolation ==
    [][ /\ \A d \in Colls :
            (made[d] /\ made'[d] /\ Stored(d)' # Stored(d)) =>
                \E t \in Threads : WritesOwn(t, d)
        /\ \A t \in Threads :
            (KeepsItems(t) /\ heap'[ret[t].val] # heap[ret[t].val]) =>
                /\ pc' = pc
                /\ \A d \in Colls : made[d] => Stored(d)' = Stored(d)
        /\ \A t \in Threads :
            (pc[t] = "CloneCopy" /\ pc'[t] = "done") =>
                /\ heap'[slice'[ret'[t].val]] = Stored(Self(t))
                /\ Stored(Self(t))' = Stored(Self(t))
                /\ slice'[ret'[t].val] # slice'[Self(t)]
      ]_vars

\* a clone and a slice Items returned have both moved away from the
\* original, which a Swap has changed since
C6_Witness ==
    \E t \in Threads :
        /\ made[2]
        /\ ret[t].kind = "items"
        /\ call[t].c = 1
        /\ Len(Stored(1)) = ConcLen
        /\ Stored(1) # input
        /\ Stored(2) # Stored(1)
        /\ heap[ret[t].val] # Stored(1)
        /\ heap[ret[t].val] # Stored(2)

\* C11: when SortAsc replaces the slice that SortAsc stored, with no
\* operation in between changing it, the new stored sequence is the same
\* element by element, ties included; likewise SortDesc after SortDesc.
C11_Idempotence ==
    [][(/\ pc[1] = "SortPublish"
        /\ pc'[1] = "done"
        /\ lastSort = call[1].op)
       => Stored(1)' = Stored(1)]_vars

\* SortAsc is about to store its result over the slice SortAsc stored, of
\* MaxLen elements not in input order, two of them with equal times
C11_Witness ==
    /\ pc[1] = "SortPublish"
    /\ call[1].op = "SortAsc"
    /\ lastSort = "SortAsc"
    /\ Len(Stored(1)) = MaxLen
    /\ Stored(1) # Iota(MaxLen)
    /\ \E p \in 1..MaxLen, q \in 1..MaxLen :
          p < q /\ extract[Stored(1)[p]] = extract[Stored(1)[q]]

\* C12: LessAsc and LessDesc read both elements from the stored sequence in
\* one state, under the read lock and with no Swap mid-way; LessAsc(i, j)
\* returns true iff the time of the first is strictly before that of the
\* second, LessDesc(i, j) iff it is strictly after (which is LessAsc(j, i)
\* of the same elements); both return false for i = j and for equal times.
C12_LessIsStrict ==
    [][\A t \in Threads :
          /\ (pc[t] = "LessRead" /\ pc'[t] = "LessExtract") =>
                /\ HoldsRead(t, Self(t))
                /\ ~MidSwap(Self(t))
                /\ loc'[t].v1 = Stored(Self(t))[call[t].i + 1]
                /\ loc'[t].v2 = Stored(Self(t))[call[t].j + 1]
          /\ (pc[t] = "LessExtract" /\ pc'[t] = "done") =>
                /\ ret'[t].kind = "bool"
                /\ ret'[t].val \in {0, 1}
                /\ call[t].op = "LessAsc" =>
                      (ret'[t].val = 1 <=> extract[loc[t].v1] < extract[loc[t].v2])
                /\ call[t].op = "LessDesc" =>
                      (ret'[t].val = 1 <=> extract[loc[t].v2] < extract[loc[t].v1])
                /\ call[t].i = call[t].j => ret'[t].val = 0
                /\ extract[loc[t].v1] = extract[loc[t].v2] => ret'[t].val = 0]_vars

\* LessDesc(i, j), i # j, has returned true and so has LessAsc(j, i)
C12_Witness ==
    \E t \in Threads, u \in Threads :
        /\ pc[t] = "done" /\ call[t].op = "LessDesc" /\ call[t].i # call[t].j
        /\ ret[t].val = 1
        /\ pc[u] = "done" /\ call[u].op = "LessAsc"
        /\ call[u].i = call[t].j /\ call[u].j = call[t].i
        /\ ret[u].val = 1

\* the sequence s with the elements at 0-based positions i and j exchanged
Exchanged(s, i, j) ==
    [k \in 1..Len(s) |->
        IF k = i + 1 THEN s[j + 1] ELSE IF k = j + 1 THEN s[i + 1] ELSE s[k]]

\* C13: when Swap(i, j) with valid positions returns, the stored sequence
\* is the one the call found with the elements at i and j exchanged, every
\* other position and the length as they were; the extractor is unchanged;
\* Swap(i, i) leaves the sequence as it was, and exchanging i and j once
\* more gives back the sequence the call found.
C13_SwapExchanges ==
    [][\A t \in Threads :
          (pc[t] = "SwapSecond" /\ pc'[t] = "done") =>
              /\ Stored(Self(t))' = Exchanged(loc[t].buf, call[t].i, call[t].j)
              /\ Len(Stored(Self(t))') = Len(loc[t].buf)
              /\ \A k \in 1..Len(loc[t].buf) :
                    (k # call[t].i + 1 /\ k # call[t].j + 1) =>
                        Stored(Self(t))'[k] = loc[t].buf[k]
              /\ call[t].i = call[t].j => Stored(Self(t))' = loc[t].buf
              /\ Exchanged(Stored(Self(t))', call[t].i, call[t].j) = loc[t].buf
              /\ fte' = fte /\ extract' = extract /\ slice' = slice]_vars

\* Swap(i, j), i # j, is about to return on a sequence of ConcLen elements
\* that a sort had rearranged
C13_Witness ==
    \E t \in Threads :
        /\ pc[t] = "SwapSecond"
        /\ call[t].i # call[t].j
        /\ Len(loc[t].buf) = ConcLen
        /\ loc[t].buf # input

\* C14: when the insertion sort that touches the collection only through
\* Len, LessAsc and Swap has run to completion in one goroutine, the stored
\* sequence is ascending by extracted time and holds the same elements;
\* with LessDesc for LessAsc it is descending.
C14_ExternalSort ==
    ext.at = "sorted" =>
        /\ IsPermutationOfInput(Stored(1))
        /\ ext.less = "LessAsc" => Ascending(Stored(1))
        /\ ext.less = "LessDesc" => Descending(Stored(1))

\* the external sort with LessAsc has ended on MaxLen elements that were
\* given in strictly descending order of time
C14_Witness ==
    /\ ext.at = "sorted"
    /\ ext.less = "LessAsc"
    /\ ext.n = MaxLen
    /\ MaxLen >= 2
    /\ Stored(1) = Reverse(Iota(MaxLen))
    /\ DistinctTimes(Stored(1))

\* thread t is at a statement that reads ts.slice between RLock and RUnlock
Reading(t) == pc[t] \in {"LenBody", "LessRead", "SortCopy", "ItemsCopy", "CloneCopy"}

\* thread t is at a statement that reads and writes ts.slice, or replaces
\* it, between Lock and Unlock
Writing(t) == pc[t] \in {"SwapFirst", "SwapSecond", "SortPublish"}

\* C15, in every state: a thread at a statement that reads the stored
\* sequence holds the read lock or the write lock; a thread at a statement
\* that writes it holds the write lock, and then no other thread holds the
\* read lock or the write lock of that collection or is at a statement
\* that reads or writes it.
LockDiscipline ==
    /\ \A t \in Threads : Reading(t) => HoldsRead(t, Self(t))
    /\ \A t \in Threads : Writing(t) => HoldsWrite(t, Self(t))
    /\ \A t \in Threads, u \in Threads :
          (t # u /\ Self(t) \in Colls /\ HoldsWrite(t, Self(t)) /\ Self(u) = Self(t)) =>
              /\ ~HoldsRead(u, Self(t))
              /\ ~HoldsWrite(u, Self(t))
              /\ ~Reading(u)
              /\ ~Writing(u)

\* C15, in every step: the stored sequence of a collection is replaced or
\* changed only by a step of a thread that holds its write lock.
WritesUnderLock ==
    \A c \in Colls :
        (made[c] /\ made'[c] /\ (slice'[c] # slice[c] \/ Stored(c)' # Stored(c))) =>
            \E t \in Threads :
                /\ Self(t) = c
                /\ Writing(t)
                /\ HoldsWrite(t, c)
                /\ pc'[t] # pc[t]

\* C15: the lock discipline holds in every reachable state and every step.
C15_LockDiscipline == []LockDiscipline /\ [][WritesUnderLock]_vars

\* a Swap is between its two assignments while another thread's Items
\* waits for the read lock
C15_Witness ==
    \E t \in Threads, u \in Threads :
        /\ pc[t] = "SwapSecond" /\ call[t].i # call[t].j
        /\ pc[u] = "RLock" /\ call[u].op = "Items"

\* C16: when SortAsc or SortDesc has returned on a sequence of n >= 2
\* elements, it has invoked the extractor n times, once per element.
C16_ExtractOncePerElement ==
    \A t \in Threads :
        (pc[t] = "done" /\ IsSort(t) /\ Len(Stored(Self(t))) >= 2) =>
            loc[t].calls = Len(Stored(Self(t)))

\* C16, first definition: a sort has returned on MaxLen elements given in
\* strictly descending order of time
C16_FirstWitness ==
    /\ pc[1] = "done"
    /\ call[1].op = "SortAsc"
    /\ MaxLen >= 2
    /\ Stored(1) = Reverse(Iota(MaxLen))
    /\ DistinctTimes(Stored(1))
    /\ loc[1].calls = MaxLen

\* C17: when SortAsc or SortDesc has returned on a sequence of 0 or 1
\* elements, it has not invoked the extractor and the stored sequence is
\* the one New was given.
C17_TrivialSizes ==
    (pc[1] = "done" /\ IsSort(1) /\ Len(Stored(1)) <= 1) =>
        /\ loc[1].calls = 0
        /\ Stored(1) = input

\* C17, empty sequence alone: SortAsc or SortDesc returns at once
C17_EmptyIsSkipped ==
    (pc[1] = "done" /\ IsSort(1) /\ Len(Stored(1)) = 0) =>
        /\ loc[1].calls = 0
        /\ Stored(1) = input

\* the stable sort of s by extracted time, ascending or descending
StableSort(s, asc) == SortedByKeys(s, [k \in 1..Len(s) |-> extract[s[k]]], asc)

\* thread 1 has run one sort and thread 2 one Swap, and both have returned
RaceOver == pc[1] = "done" /\ IsSort(1) /\ pc[2] = "done" /\ call[2].op = "Swap"

\* the result of the sort of thread 1 followed by the Swap of thread 2
SortThenSwap ==
    Exchanged(StableSort(input, call[1].op = "SortAsc"), call[2].i, call[2].j)

\* the result of the Swap of thread 2 followed by the sort of thread 1
SwapThenSort ==
    StableSort(Exchanged(input, call[2].i, call[2].j), call[1].op = "SortAsc")

\* the sort of the sequence the Swap had not reached yet, stored over the
\* sequence the Swap has changed
SwapLost == StableSort(input, call[1].op = "SortAsc")

\* C18 as claimed: after a sort and a concurrent Swap have both returned,
\* the stored sequence is that of the two run one after the other, in one
\* order or the other.
C18_Linearizable ==
    RaceOver => Stored(1) \in {SortThenSwap, SwapThenSort}

\* C18 as amended: after a sort and a concurrent Swap have both returned,
\* the stored sequence is that of the two run one after the other in one
\* order or the other, or the sort of the initial sequence: a Swap that
\* takes effect between the sort's snapshot and its publish is overwritten.
\* With all times distinct the three coincide pairwise as a sort must.
C18_LinearizableOrSwapLost ==
    RaceOver =>
        /\ Stored(1) \in {SortThenSwap, SwapThenSort, SwapLost}
        /\ DistinctTimes(input) => Stored(1) \in {SortThenSwap, SwapThenSort}

\* both have returned and the Swap is lost: the stored sequence is the sort
\* of the initial sequence and neither sequential result
C18_Witness ==
    /\ RaceOver
    /\ Stored(1) = SwapLost
    /\ Stored(1) # SortThenSwap
    /\ Stored(1) # SwapThenSort

\* thread t has called LessAsc, LessDesc or Swap with a position outside
\* 0..Len()-1
OutOfRange(t) ==
    /\ call[t].op \in IndexedOps
    /\ ~(InRange(Self(t), call[t].i) /\ InRange(Self(t), call[t].j))

\* C19: a call of LessAsc, LessDesc or Swap with a position out of range
\* never returns a value; the step in which it fails changes no stored
\* sequence, and when it has failed the thread holds no lock of the
\* collection, for LessAsc, LessDesc and Swap alike.
C19_OutOfRangeFailsClean ==
    [][\A t \in Threads :
          /\ (OutOfRange(t) /\ pc'[t] # pc[t]) => pc'[t] # "done"
          /\ (OutOfRange(t) /\ pc[t] # "panicked" /\ pc'[t] = "panicked") =>
                /\ heap' = heap
                /\ slice' = slice
                /\ \A c \in Colls : t \notin mu'[c].readers /\ mu'[c].writer # t]_vars

\* C19, Swap alone: the deferred Unlock runs when the bounds check fails
C19_SwapFailsClean ==
    \A t \in Threads :
        (pc[t] = "panicked" /\ call[t].op = "Swap") => ~HoldsLock(t)

\* C19, consequence: a read lock that no thread will ever release
C19_NoLockLeft == \A c \in Colls : ~mu[c].orphans /\ mu[c].writer # -1

\* s is the stable ascending (descending) order of the sequence New was
\* given: the same elements, no time after (before) that of its successor,
\* equal times in input order
IsStableOrderOfInput(s, asc) ==
    /\ IsPermutationOfInput(s)
    /\ IF asc THEN Ascending(s) ELSE Descending(s)
    /\ TiesInInputOrder(s)

\* C20: with SortAsc and SortDesc run concurrently by several threads and
\* no Swap, the stored sequence is the input until a sort has published,
\* and from then on the stable ascending order of the input if the publish
\* step that ran last was SortAsc's, the stable descending order if it was
\* SortDesc's; so it is when all of them have returned.
C20_LastPublishWins ==
    made[1] =>
        IF lastSort = "none"
        THEN Stored(1) = input
        ELSE IsStableOrderOfInput(Stored(1), lastSort = "SortAsc")

\* both threads have returned, one from SortAsc and one from SortDesc; the
\* SortDesc published last, over MaxLen elements with a tie that are
\* neither in input order nor in its reverse
C20_Witness ==
    \E t \in Threads, u \in Threads :
        /\ pc[t] = "done" /\ call[t].op = "SortAsc"
        /\ pc[u] = "done" /\ call[u].op = "SortDesc"
        /\ lastSort = "SortDesc"
        /\ Len(Stored(1)) = MaxLen
        /\ Stored(1) # input
        /\ Stored(1) # Reverse(input)
        /\ ~DistinctTimes(Stored(1))

=============================================================================
